---- MODULE Spec2Model ----
(***************************************************************************)
(* The Gaussian-process emulator wrappers (gpemulator.py), the             *)
(* temperature-density fit (lyaemu/tempdens.py) and the plotting driver    *)
(* (main.py), as one state machine.  `prog' names the entry point a run    *)
(* exercises; every run executes exactly one of them.                      *)
(*                                                                         *)
(* Real numbers are exact rationals <<numerator, denominator>> with a      *)
(* positive denominator.  The external libraries (GPy regression, scipy    *)
(* minimize and leastsq) are not implemented here: what they return is     *)
(* drawn from small sets of outcomes.                                      *)
(***************************************************************************)
EXTENDS Integers, Sequences, FiniteSets, TLC

VARIABLES
    prog,        \* entry point of the run
    \* ---- SkLearnGP: constructor arguments, object fields, constructor frame
    params,      \* params argument / self.params: list of parameter vectors
    powers,      \* powers argument: one flux spectrum per parameter vector
    cv,          \* cv argument
    self,        \* object fields: sdscale, gp, scalefactors, paramzero
    pc,          \* position in SkLearnGP.__init__
    ex,          \* loop index of cv_rescale
    scales,      \* list built in cv_rescale, one error vector per fold
    res,         \* result of scipy.optimize.minimize
    out,         \* lines printed by SkLearnGP: the text and the values after it
    fits,        \* history: the training inputs of every model fitted, in order
    folds,       \* log of the running cv_rescale: one record per _get_cv_one call
    last,        \* result of the latest predict / get_predict_error call
    \* ---- MultiBinGP
    mbpc,        \* position in MultiBinGP.__init__ / predict
    kf,          \* kf argument / self.kf
    nk,          \* self.nk
    mbparams,    \* params argument of MultiBinGP
    mbpowers,    \* powers argument of MultiBinGP
    nz,          \* self.nz
    gps,         \* self.gps
    qparams,     \* the caller's params array handed to MultiBinGP.predict
    qorig,       \* history: the caller's array as it was at the call
    tau,         \* tau0_factors: None, or a list of factors
    bin,         \* loop index i of predict
    means,       \* local means of predict
    std,         \* local std of predict
    passed,      \* history: the array handed to each bin's emulator
    \* ---- fit_temp_dens_relation
    tdpc,        \* position in fit_temp_dens_relation
    logoverden,  \* argument
    logT,        \* argument
    tdres,       \* res, the tuple leastsq returns
    tdout,       \* lines printed
    tdret,       \* the value returned
    \* ---- main.py
    mainpc,      \* position in the script
    argv,        \* sys.argv
    sim_rootdir, \* sys.argv[1]
    savedir,     \* sys.argv[2]
    calls        \* history: the plotting routines called, with their arguments

gpVars == <<params, powers, cv, self, pc, ex, scales, res, out, fits, folds, last>>
mbVars == <<mbpc, kf, nk, mbparams, mbpowers, nz, gps, qparams, qorig, tau, bin, means, std, passed>>
tdVars == <<tdpc, logoverden, logT, tdres, tdout, tdret>>
mainVars == <<mainpc, argv, sim_rootdir, savedir, calls>>
vars == <<prog, gpVars, mbVars, tdVars, mainVars>>

(***************************************************************************)
(* Bounds of the model.                                                    *)
(***************************************************************************)
\* most training points of a directly built SkLearnGP
MaxN == 3
\* most flux bins of a directly built SkLearnGP
MaxBins == 2
\* most wavenumber bins of a MultiBinGP
MaxNk == 2
\* most redshift bins of a MultiBinGP
MaxNz == 2
\* most parameter vectors in one MultiBinGP.predict call
MaxK == 2
\* most gas particles handed to fit_temp_dens_relation
MaxPts == 3
\* most command-line arguments after the script name
MaxArgs == 3
\* The spectra of nb bins a training set is drawn from (positive powers): two
\* flat ones and a tilted one whose mean power lies between theirs.
Spectra(nb) ==
    {[b \in 1..nb |-> 1],
     [b \in 1..nb |-> IF b = 1 THEN 2 ELSE 1],
     [b \in 1..nb |-> 2]}
NParams == 1..2          \* components of a parameter vector

(***************************************************************************)
(* Rational arithmetic.                                                    *)
(***************************************************************************)
Rat(n) == <<n, 1>>
RatEq(a, b) == a[1] * b[2] = b[1] * a[2]
RatLeq(a, b) == a[1] * b[2] <= b[1] * a[2]
RatAdd(a, b) == <<a[1] * b[2] + b[1] * a[2], a[2] * b[2]>>
RatSub(a, b) == <<a[1] * b[2] - b[1] * a[2], a[2] * b[2]>>
RatMulInt(a, k) == <<a[1] * k, a[2]>>
RatDivInt(a, k) == <<a[1], a[2] * k>>

RECURSIVE SumSeq(_)
SumSeq(s) == IF s = <<>> THEN 0 ELSE Head(s) + SumSeq(Tail(s))

\* the permutations of 1..n
RECURSIVE Perms(_)
Perms(n) ==
    IF n = 0 THEN {<<>>}
    ELSE {[k \in 1..n |-> IF k < i THEN p[k] ELSE IF k = i THEN n ELSE p[k - 1]] :
             p \in Perms(n - 1), i \in 1..n}

(***************************************************************************)
(* latin_hypercube.map_to_unit_cube: each component shifted by the lower   *)
(* limit and divided by the width of its interval.                         *)
(***************************************************************************)
ParamLimits == [c \in NParams |-> <<0, MaxN + 2>>]
map_to_unit_cube(pp, limits) ==
    [c \in 1..Len(pp) |-> <<pp[c] - limits[c][1], limits[c][2] - limits[c][1]>>]

\* The training points: pairwise distinct parameter vectors.
ParamVec(j) == <<j, ((2 * j) % 3) + 1>>
TrainParams(n) == [j \in 1..n |-> ParamVec(j)]

(***************************************************************************)
(* GPy.  A fitted model is the training set it was given together with    *)
(* the outcome of gp.optimize, which is the library's: `hyper' fixes what  *)
(* the model predicts away from its training inputs (f) and its predictive *)
(* variance (var).  At a training input the regression returns the         *)
(* training output (noise_var = 1e-10).                                    *)
(***************************************************************************)
OptimizeOutcomes == {[f |-> <<0, 1>>, var |-> 1], [f |-> <<1, 2>>, var |-> 4]}
GPRegression(X, Y, hyper) == [X |-> X, Y |-> Y, hyper |-> hyper]
NoGP == [X |-> <<>>, Y |-> <<>>, hyper |-> <<>>]
GPPredictRow(gp, x) ==
    IF \E j \in 1..Len(gp.X) : gp.X[j] = x
    THEN gp.Y[CHOOSE j \in 1..Len(gp.X) : gp.X[j] = x]
    ELSE [b \in 1..Len(gp.Y[1]) |-> gp.hyper.f]
\* gp.predict: flux_predict of shape (K, noutput) and var of shape (K, 1)
GPPredict(gp, cube) ==
    [flux_predict |-> [k \in 1..Len(cube) |-> GPPredictRow(gp, cube[k])],
     var |-> [k \in 1..Len(cube) |-> gp.hyper.var]]
Sqrt(v) == CHOOSE r \in 0..v : r * r = v

(***************************************************************************)
(* SkLearnGP._get_interp                                                   *)
(***************************************************************************)
\* np.mean(flux_vectors, axis=1)
RowMeans(flux_vectors) ==
    [j \in 1..Len(flux_vectors) |-> <<SumSeq(flux_vectors[j]), Len(flux_vectors[j])>>]
\* np.argsort: every ascending order of the indices (ties in any order)
ArgSorts(v) ==
    {p \in Perms(Len(v)) : \A a, b \in 1..Len(v) : a < b => RatLeq(v[p[a]], v[p[b]])}
\* (variant: the lower median, position (M-1)//2)
MedIndsLower(flux_vectors) ==
    {p[((Len(flux_vectors) - 1) \div 2) + 1] : p \in ArgSorts(RowMeans(flux_vectors))}
\* np.argsort(...)[np.shape(flux_vectors)[0]//2], as 1-based row numbers
MedInds(flux_vectors) ==
    {p[(Len(flux_vectors) \div 2) + 1] : p \in ArgSorts(RowMeans(flux_vectors))}
\* flux_vectors/self.scalefactors - 1.
Normalise(spectrum, scalefactors) ==
    [b \in 1..Len(spectrum) |-> RatSub(<<spectrum[b], scalefactors[b]>>, Rat(1))]
\* The fields _get_interp assigns, for the median row medind and the outcome
\* hyper of gp.optimize.
GetInterp(ps, flux_vectors, medind, hyper) ==
    LET params_cube == [j \in 1..Len(ps) |-> map_to_unit_cube(ps[j], ParamLimits)]
        scalefactors == flux_vectors[medind]
        normspectra == [j \in 1..Len(flux_vectors) |->
                           Normalise(flux_vectors[j], scalefactors)]
    IN  [scalefactors |-> scalefactors,
         paramzero |-> params_cube[medind],
         gp |-> GPRegression(params_cube, normspectra, hyper)]

(***************************************************************************)
(* SkLearnGP.predict and get_predict_error                                 *)
(***************************************************************************)
\* mean = (flux_predict+1)*self.scalefactors
Denormalise(flux_predict, scalefactors) ==
    [b \in 1..Len(flux_predict) |->
        RatMulInt(RatAdd(flux_predict[b], Rat(1)), scalefactors[b])]
Predict(obj, ps) ==
    LET params_cube == [k \in 1..Len(ps) |-> map_to_unit_cube(ps[k], ParamLimits)]
        r == GPPredict(obj.gp, params_cube)
    IN  [mean |-> [k \in 1..Len(ps) |-> Denormalise(r.flux_predict[k], obj.scalefactors)],
         std |-> [k \in 1..Len(ps) |->
                    [b \in 1..Len(obj.scalefactors) |->
                        obj.sdscale * Sqrt(r.var[k]) * obj.scalefactors[b]]]]
\* (test_exact - predict)/sigma, test_exact reshaped to one row per test point
GetPredictError(obj, test_params, test_exact) ==
    LET p == Predict(obj, test_params)
    IN  [k \in 1..Len(test_params) |->
            [b \in 1..Len(p.mean[k]) |->
                RatDivInt(RatSub(Rat(test_exact[k][b]), p.mean[k][b]), p.std[k][b])]]

(***************************************************************************)
(* SkLearnGP._get_cv_one: the boolean mask and the rows it selects.        *)
(***************************************************************************)
\* (variant: the excluded index counted from one)
MaskFromOne(npowers, exclude) == [j \in 1..npowers |-> j # exclude]
\* np.arange(npowers) != exclude
Mask(npowers, exclude) == [j \in 1..npowers |-> (j - 1) # exclude]
RECURSIVE BoolIndex(_, _)
BoolIndex(arr, mask) ==
    IF arr = <<>> THEN <<>>
    ELSE LET rest == BoolIndex(Tail(arr), Tail(mask))
         IN  IF Head(mask) THEN <<Head(arr)>> \o rest ELSE rest

(***************************************************************************)
(* scipy.optimize.minimize(normal, 1): the fitted sigma and whether the    *)
(* optimizer reports convergence.                                          *)
(***************************************************************************)
MinimizeMessage == "Desired error not necessarily achieved due to precision loss."
MinimizeOutcomes ==
    {[success |-> TRUE, x |-> 2, message |-> "Optimization terminated successfully."],
     [success |-> FALSE, x |-> 2, message |-> MinimizeMessage],
     [success |-> FALSE, x |-> 3, message |-> MinimizeMessage]}
PrintLine(text, args) == [text |-> text, args |-> args]
None == [none |-> TRUE, factors |-> <<>>]
NoRes == [success |-> TRUE, x |-> 0, message |-> ""]
NoLast == [mean |-> <<>>, std |-> <<>>, err |-> <<>>]
NoSelf == [sdscale |-> 0, gp |-> NoGP, scalefactors |-> <<>>, paramzero |-> <<>>]

GPIdle ==
    /\ params = <<>> /\ powers = <<>> /\ cv = FALSE /\ self = NoSelf
    /\ pc = "idle" /\ ex = 0 /\ scales = <<>> /\ res = NoRes /\ out = <<>>
    /\ fits = <<>> /\ folds = <<>> /\ last = NoLast
MBIdle ==
    /\ mbpc = "idle" /\ kf = <<>> /\ nk = 0 /\ mbparams = <<>> /\ mbpowers = <<>>
    /\ nz = 0 /\ gps = <<>>
    /\ qparams = <<>> /\ qorig = <<>> /\ tau = None /\ bin = 0
    /\ means = <<>> /\ std = <<>> /\ passed = <<>>
TDIdle ==
    /\ tdpc = "idle" /\ logoverden = <<>> /\ logT = <<>>
    /\ tdres = <<>> /\ tdout = <<>> /\ tdret = <<>>
MainIdle == mainpc = "idle" /\ argv = <<>> /\ sim_rootdir = "" /\ savedir = "" /\ calls = <<>>

\* SkLearnGP(params=..., powers=..., param_limits=..., cv=...) is about to run
InitSkLearnGP ==
    /\ prog = "SkLearnGP"
    /\ \E n \in 2..MaxN, nb \in 1..MaxBins :
          /\ params = TrainParams(n)
          /\ powers \in [1..n -> Spectra(nb)]
    /\ cv \in BOOLEAN
    /\ self = NoSelf /\ pc = "start" /\ ex = 0 /\ scales = <<>> /\ res = NoRes
    /\ out = <<>> /\ fits = <<>> /\ folds = <<>> /\ last = NoLast
    /\ MBIdle /\ TDIdle /\ MainIdle

(***************************************************************************)
(* SkLearnGP.__init__                                                      *)
(***************************************************************************)
InitialSdscale == 1

\* lines 49-57: the fields are set, sdscale = 1, and cv selects the branch
GPStart ==
    /\ pc = "start"
    /\ self' = [self EXCEPT !.sdscale = InitialSdscale]
    /\ pc' = IF cv THEN "fold" ELSE "full"
    /\ UNCHANGED <<params, powers, cv, ex, scales, res, out, fits, folds, last>>

\* one iteration of the list comprehension of cv_rescale: _get_cv_one(ex)
CvOne ==
    /\ pc = "fold"
    /\ ex < Len(powers)
    /\ LET mask == Mask(Len(powers), ex)
           expowers == BoolIndex(powers, mask)
           exparams == BoolIndex(params, mask)
       IN  \E medind \in MedInds(expowers), hyper \in OptimizeOutcomes :
              LET fit == GetInterp(exparams, expowers, medind, hyper)
                  obj == [self EXCEPT !.gp = fit.gp,
                                      !.scalefactors = fit.scalefactors,
                                      !.paramzero = fit.paramzero]
                  test_exact == powers[ex + 1]
                  test_params == <<params[ex + 1]>>
                  err == GetPredictError(obj, test_params, <<test_exact>>)[1]
              IN  /\ self' = obj
                  /\ scales' = Append(scales, err)
                  /\ fits' = Append(fits, fit.gp.X)
                  /\ folds' = Append(folds,
                                 [exclude |-> ex, test_params |-> test_params,
                                  test_exact |-> test_exact, gp |-> obj.gp,
                                  scalefactors |-> obj.scalefactors,
                                  predict |-> Predict(obj, test_params)])
    /\ ex' = ex + 1
    /\ UNCHANGED <<params, powers, cv, pc, res, out, last>>

\* (variant: a fit that did not converge is discarded and sdscale keeps its value)
CvRescaleFitDiscarding ==
    /\ pc = "fold"
    /\ ex = Len(powers)
    /\ \E r \in MinimizeOutcomes :
          /\ res' = r
          /\ out' = IF ~r.success THEN Append(out, PrintLine(r.message, <<>>)) ELSE out
          /\ self' = IF r.success THEN [self EXCEPT !.sdscale = r.x] ELSE self
    /\ pc' = "full"
    /\ scales' = <<>>
    /\ folds' = <<>>
    /\ UNCHANGED <<params, powers, cv, ex, fits, last>>

\* lines 68-79 and the assignment of line 58; the locals of cv_rescale end here
CvRescaleFit ==
    /\ pc = "fold"
    /\ ex = Len(powers)
    /\ \E r \in MinimizeOutcomes :
          /\ res' = r
          /\ out' = IF ~r.success THEN Append(out, PrintLine(r.message, <<>>)) ELSE out
          /\ self' = [self EXCEPT !.sdscale = r.x]
    /\ pc' = "full"
    /\ scales' = <<>>
    /\ folds' = <<>>
    /\ UNCHANGED <<params, powers, cv, ex, fits, last>>

\* (variant: the model of the last fold is kept, the full emulator is not built)
BuildFullSkipped ==
    /\ pc = "full"
    /\ out' = Append(out, PrintLine("Rescaling errors by: ", <<self.sdscale>>))
    /\ pc' = "done"
    /\ UNCHANGED <<params, powers, cv, self, ex, scales, res, fits, folds, last>>

\* lines 60-62: the print and the full emulator
BuildFull ==
    /\ pc = "full"
    /\ \E medind \in MedInds(powers), hyper \in OptimizeOutcomes :
          LET fit == GetInterp(params, powers, medind, hyper)
          IN  /\ self' = [self EXCEPT !.gp = fit.gp,
                                      !.scalefactors = fit.scalefactors,
                                      !.paramzero = fit.paramzero]
              /\ fits' = Append(fits, fit.gp.X)
    /\ out' = Append(out, PrintLine("Rescaling errors by: ", <<self.sdscale>>))
    /\ pc' = "done"
    /\ UNCHANGED <<params, powers, cv, ex, scales, res, folds, last>>

\* (variant: predict resets the rescaling factor)
PredictCallResetting ==
    /\ prog = "SkLearnGP" /\ pc = "done"
    /\ \E x \in {params[1], ParamVec(MaxN + 1)} :
          LET p == Predict(self, <<x>>)
          IN  last' = [mean |-> p.mean, std |-> p.std, err |-> <<>>]
    /\ self' = [self EXCEPT !.sdscale = InitialSdscale]
    /\ UNCHANGED <<params, powers, cv, pc, ex, scales, res, out, fits, folds>>

\* a call of predict on the finished object
PredictCall ==
    /\ prog = "SkLearnGP" /\ pc = "done"
    /\ \E x \in {params[1], ParamVec(MaxN + 1)} :
          LET p == Predict(self, <<x>>)
          IN  last' = [mean |-> p.mean, std |-> p.std, err |-> <<>>]
    /\ UNCHANGED <<params, powers, cv, self, pc, ex, scales, res, out, fits, folds>>

\* a call of get_predict_error on the finished object
GetPredictErrorCall ==
    /\ prog = "SkLearnGP" /\ pc = "done"
    /\ \E j \in {1, Len(params)} :
          last' = [mean |-> <<>>, std |-> <<>>,
                   err |-> GetPredictError(self, <<ParamVec(MaxN + 1)>>, <<powers[j]>>)]
    /\ UNCHANGED <<params, powers, cv, self, pc, ex, scales, res, out, fits, folds>>

(***************************************************************************)
(* MultiBinGP.__init__                                                     *)
(***************************************************************************)
coreg == FALSE

\* powers[:, lo:hi]
ColSlice(arr, lo, hi) == [j \in 1..Len(arr) |-> SubSeq(arr[j], lo + 1, hi)]
\* (variant: the bin index is not scaled by the number of wavenumber bins)
BinPowersUnscaled(arr, i, n) == ColSlice(arr, i, i + n)
\* the powers handed to the emulator of bin i
BinPowers(arr, i, n) == ColSlice(arr, i * n, (i + 1) * n)
\* int(np.shape(powers)[1]/self.nk)
NumZ(ncols, n) == ncols \div n

\* Training spectra whose columns hold pairwise different values.
MBPowers(n, ncols) == [j \in 1..n |-> [c \in 1..ncols |-> j + 2 * (c - 1)]]

\* MultiBinGP(params=..., kf=..., powers=..., param_limits=...) is about to run
InitMultiBinGP ==
    /\ prog = "MultiBinGP"
    /\ \E n \in 1..MaxNk :
          /\ kf = [k \in 1..n |-> k]
          /\ \E ncols \in {n * z : z \in 1..MaxNz} \cup {n * z + 1 : z \in 1..MaxNz} :
                mbpowers = MBPowers(2, ncols)
    /\ mbparams = TrainParams(2)
    /\ mbpc = "start" /\ nk = 0 /\ nz = 0 /\ gps = <<>>
    /\ qparams = <<>> /\ qorig = <<>> /\ tau = None /\ bin = 0
    /\ means = <<>> /\ std = <<>> /\ passed = <<>>
    /\ GPIdle /\ TDIdle /\ MainIdle

\* lines 20-24: the assertion and nz
MBStart ==
    /\ mbpc = "start"
    /\ nk' = Len(kf)
    /\ IF Len(mbpowers[1]) % Len(kf) = 0
       THEN /\ nz' = NumZ(Len(mbpowers[1]), Len(kf))
            /\ mbpc' = "build"
       ELSE /\ nz' = nz
            /\ mbpc' = "raised"
    /\ UNCHANGED <<kf, mbparams, mbpowers, gps, qparams, qorig, tau, bin, means, std, passed>>
    /\ UNCHANGED gpVars

\* line 25-26: gp(i) is called for the next i; SkLearnGP.__init__ starts (cv
\* keeps its default)
MBBuildStart ==
    /\ mbpc = "build" /\ pc = "idle" /\ Len(gps) < nz
    /\ params' = mbparams
    /\ powers' = BinPowers(mbpowers, Len(gps), nk)
    /\ cv' = TRUE
    /\ pc' = "start"
    /\ UNCHANGED <<self, ex, scales, res, out, fits, folds, last>>
    /\ UNCHANGED mbVars

\* SkLearnGP.__init__ has returned: the object joins self.gps
MBBuildDone ==
    /\ mbpc = "build" /\ pc = "done"
    /\ gps' = Append(gps, self)
    /\ mbpc' = IF Len(gps) + 1 = nz THEN "built" ELSE "build"
    /\ pc' = "idle" /\ params' = <<>> /\ powers' = <<>> /\ cv' = FALSE /\ self' = NoSelf
    /\ ex' = 0 /\ res' = NoRes /\ fits' = <<>>
    /\ UNCHANGED <<scales, out, folds, last>>
    /\ UNCHANGED <<kf, nk, mbparams, mbpowers, nz, qparams, qorig, tau, bin, means, std, passed>>

(***************************************************************************)
(* MultiBinGP.predict                                                      *)
(***************************************************************************)
Factors(f) == [none |-> FALSE, factors |-> f]
Zeros(rows, ncols) == [r \in 1..rows |-> [c \in 1..ncols |-> Rat(0)]]
\* row[lo:lo+len(vals)] = vals
SetCols(row, lo, vals) ==
    [c \in 1..Len(row) |-> IF c > lo /\ c <= lo + Len(vals) THEN vals[c - lo] ELSE row[c]]
\* (variant: no copy is made, zparams is the caller's array itself)
ZParamsInPlace(cur, factors, i) ==
    LET z == IF ~factors.none
             THEN [cur EXCEPT ![1][1] = cur[1][1] * factors.factors[i + 1]]
             ELSE cur
    IN  [z |-> z, caller |-> z]
\* lines 34-36: the array handed to bin i's emulator (z) and the caller's array
\* after the statement (caller); np.array copies its argument
ZParams(cur, factors, i) ==
    LET copy == cur
        z == IF ~factors.none
             THEN [copy EXCEPT ![1][1] = copy[1][1] * factors.factors[i + 1]]
             ELSE copy
    IN  [z |-> z, caller |-> cur]
\* numpy assignment: a value of K rows fits a target of R rows when K = 1 or K = R
\* (a one-dimensional target counts as R = 1, and takes no more than one row)
Fits(K, R) == K = 1 \/ (K = R /\ R > 1)

\* the call: lines 30-31
MBPredictCall ==
    /\ mbpc = "built"
    /\ \E q \in {<<ParamVec(1)>>, <<ParamVec(MaxN + 1)>>}
                 \cup {[k \in 1..K |-> ParamVec(k)] : K \in 2..MaxK} :
          /\ qparams' = q
          /\ qorig' = q
          /\ std' = Zeros(1 + (IF coreg THEN Len(q[1]) - 1 ELSE 0), nk * nz)
    /\ tau' \in {None, Factors([i \in 1..nz |-> i + 1])}
    /\ means' = Zeros(1, nk * nz)
    /\ bin' = 0
    /\ passed' = <<>>
    /\ mbpc' = "predict"
    /\ UNCHANGED <<kf, nk, mbparams, mbpowers, nz, gps>>
    /\ UNCHANGED gpVars

\* one iteration of the loop of lines 32-39; an assignment numpy cannot
\* broadcast raises ValueError
MBPredictBin ==
    /\ mbpc = "predict" /\ bin < nz
    /\ LET zp == ZParams(qparams, tau, bin)
           r == Predict(gps[bin + 1], zp.z)
           m == r.mean
           sd == r.std
       IN  /\ qparams' = zp.caller
           /\ passed' = Append(passed, zp.z)
           /\ IF ~Fits(Len(m), 1)
              THEN /\ mbpc' = "predict_raised"
                   /\ UNCHANGED <<means, std, bin>>
              ELSE /\ means' = [means EXCEPT ![1] = SetCols(means[1], bin * nk, m[1])]
                   /\ IF ~Fits(Len(sd), Len(std))
                      THEN /\ mbpc' = "predict_raised"
                           /\ UNCHANGED <<std, bin>>
                      ELSE /\ std' = [r0 \in 1..Len(std) |->
                                        SetCols(std[r0], bin * nk,
                                                [b \in 1..nk |->
                                                    Rat(sd[IF Len(sd) = 1 THEN 1 ELSE r0][b])])]
                           /\ bin' = bin + 1
                           /\ mbpc' = "predict"
    /\ UNCHANGED <<kf, nk, mbparams, mbpowers, nz, gps, qorig, tau>>
    /\ UNCHANGED gpVars

\* line 40
MBPredictReturn ==
    /\ mbpc = "predict" /\ bin = nz
    /\ mbpc' = "returned"
    /\ UNCHANGED <<kf, nk, mbparams, mbpowers, nz, gps, qparams, qorig, tau, bin, means,
                   std, passed>>
    /\ UNCHANGED gpVars

(***************************************************************************)
(* fit_temp_dens_relation                                                  *)
(***************************************************************************)
\* np.where((logoverden < 1.0) * (logT < 5.0)), as 1-based positions in order
RECURSIVE Where(_, _, _)
Where(lo, lt, j) ==
    IF j > Len(lo) THEN <<>>
    ELSE (IF lo[j] < 1 /\ lt[j] < 5 THEN <<j>> ELSE <<>>) \o Where(lo, lt, j + 1)
RECURSIVE Pow10(_)
Pow10(e) == IF e = 0 THEN 1 ELSE 10 * Pow10(e - 1)
\* scipy.optimize.leastsq(..., full_output=True): the fitted (logT0, gammam1),
\* the message and the integer flag ier of MINPACK (1 to 4: a solution was found)
LeastsqMessage(ier) ==
    IF ier = 0 THEN "Improper input parameters."
    ELSE IF ier \in 1..4 THEN "The relative error is at most 0.000000"
    ELSE IF ier = 5 THEN "Number of calls to function has reached maxfev = 600."
    ELSE "tolerance is too small."
LeastsqOutcomes ==
    {<<x, "cov_x", "infodict", LeastsqMessage(ier), ier>> :
        x \in {<<4, 0>>, <<3, 1>>}, ier \in 0..8}
\* the test of line 44 on the flag res[-1]
Unconverged(ier) == ier <= 0

InitTempDens ==
    /\ prog = "tempdens"
    /\ \E n \in 0..MaxPts :
          /\ logoverden \in [1..n -> {0, 1}]
          /\ logT \in [1..n -> {4, 5}]
    /\ tdpc = "start" /\ tdres = <<>> /\ tdout = <<>> /\ tdret = <<>>
    /\ GPIdle /\ MBIdle /\ MainIdle

\* lines 30-45.  leastsq raises TypeError when it is given fewer residuals than
\* the two parameters it fits.
TDFit ==
    /\ tdpc = "start"
    /\ LET ind == Where(logoverden, logT, 1)
       IN  IF Len(ind) < 2
           THEN /\ tdpc' = "raised"
                /\ UNCHANGED <<tdres, tdout>>
           ELSE \E r \in LeastsqOutcomes :
                   /\ tdres' = r
                   /\ tdout' = IF Unconverged(r[Len(r)]) THEN Append(tdout, r[4]) ELSE tdout
                   /\ tdpc' = "fitted"
    /\ UNCHANGED <<logoverden, logT, tdret>>

\* line 46
TDReturn ==
    /\ tdpc = "fitted"
    /\ tdret' = <<Pow10(tdres[1][1]), tdres[1][2] + 1>>
    /\ tdpc' = "done"
    /\ UNCHANGED <<logoverden, logT, tdres, tdout>>

(***************************************************************************)
(* main.py                                                                 *)
(***************************************************************************)
RECURSIVE SeqsUpTo(_, _)
SeqsUpTo(S, n) ==
    IF n = 0 THEN {<<>>}
    ELSE SeqsUpTo(S, n - 1) \cup {Append(q, x) : q \in {t \in SeqsUpTo(S, n - 1) : Len(t) = n - 1}, x \in S}

InitMain ==
    /\ prog = "main"
    /\ \E args \in SeqsUpTo({"/sims", "plots"}, MaxArgs) : argv = <<"main.py">> \o args
    /\ mainpc = "start" /\ sim_rootdir = "" /\ savedir = "" /\ calls = <<>>
    /\ GPIdle /\ MBIdle /\ TDIdle

\* (variant: the two simulation directories are exchanged)
PlotCallExchanged(root, save) ==
    [fn |-> "plot_test_interpolate_kf_bin_loop",
     emudir |-> root \o "/Lya_Boss/hires_knots_test",
     testdir |-> root \o "/Lya_Boss/hires_knots",
     savedir |-> save,
     plotname |-> "_Two_loop",
     kf_bin_nums |-> <<0, 1>>]
\* the plotting routine of line 15 and the arguments it is called with
PlotCall(root, save) ==
    [fn |-> "plot_test_interpolate_kf_bin_loop",
     emudir |-> root \o "/Lya_Boss/hires_knots",
     testdir |-> root \o "/Lya_Boss/hires_knots_test",
     savedir |-> save,
     plotname |-> "_Two_loop",
     kf_bin_nums |-> <<0, 1>>]

\* lines 7-8: sys.argv[1] and sys.argv[2]; a missing one raises IndexError
MainReadArgs ==
    /\ mainpc = "start"
    /\ IF Len(argv) < 3
       THEN /\ mainpc' = "raised"
            /\ sim_rootdir' = IF Len(argv) >= 2 THEN argv[2] ELSE sim_rootdir
            /\ UNCHANGED savedir
       ELSE /\ sim_rootdir' = argv[2]
            /\ savedir' = argv[3]
            /\ mainpc' = "args"
    /\ UNCHANGED <<argv, calls>>

\* lines 10-15
MainPlot ==
    /\ mainpc = "args"
    /\ calls' = Append(calls, PlotCall(sim_rootdir, savedir))
    /\ mainpc' = "done"
    /\ UNCHANGED <<argv, sim_rootdir, savedir>>

Init == InitSkLearnGP \/ InitMultiBinGP \/ InitTempDens \/ InitMain

Next ==
    \/ GPStart /\ UNCHANGED <<prog, mbVars, tdVars, mainVars>>
    \/ CvOne /\ UNCHANGED <<prog, mbVars, tdVars, mainVars>>
    \/ CvRescaleFit /\ UNCHANGED <<prog, mbVars, tdVars, mainVars>>
    \/ BuildFull /\ UNCHANGED <<prog, mbVars, tdVars, mainVars>>
    \/ PredictCall /\ UNCHANGED <<prog, mbVars, tdVars, mainVars>>
    \/ GetPredictErrorCall /\ UNCHANGED <<prog, mbVars, tdVars, mainVars>>
    \/ MBStart /\ UNCHANGED <<prog, tdVars, mainVars>>
    \/ MBBuildStart /\ UNCHANGED <<prog, tdVars, mainVars>>
    \/ MBBuildDone /\ UNCHANGED <<prog, tdVars, mainVars>>
    \/ MBPredictCall /\ UNCHANGED <<prog, tdVars, mainVars>>
    \/ MBPredictBin /\ UNCHANGED <<prog, tdVars, mainVars>>
    \/ MBPredictReturn /\ UNCHANGED <<prog, tdVars, mainVars>>
    \/ TDFit /\ UNCHANGED <<prog, gpVars, mbVars, mainVars>>
    \/ TDReturn /\ UNCHANGED <<prog, gpVars, mbVars, mainVars>>
    \/ MainReadArgs /\ UNCHANGED <<prog, gpVars, mbVars, tdVars>>
    \/ MainPlot /\ UNCHANGED <<prog, gpVars, mbVars, tdVars>>

Spec == Init /\ [][Next]_vars

(***************************************************************************)
(* Properties.                                                             *)
(***************************************************************************)
Cube(pp) == map_to_unit_cube(pp, ParamLimits)
\* the spectrum a normalised training row stands for
Restored(y, scalefactors, b) == RatMulInt(RatAdd(y[b], Rat(1)), scalefactors[b])
NTrain == Len(powers)

\* C1: with cv=True on N points cv_rescale runs one fold per index 0..N-1, in
\* order; the model of fold ex was fitted on exactly the N-1 pairs (parameter
\* vector, spectrum) of the other indices, each vector with its own spectrum,
\* it has not seen params[ex], and the error of the fold is that model's
\* prediction at params[ex] compared with powers[ex].
C1_LeaveOneOut ==
    /\ pc = "fold" =>
          /\ cv /\ ex <= NTrain /\ Len(folds) = ex /\ Len(scales) = ex /\ Len(fits) = ex
          /\ \A f \in 1..Len(folds) :
                LET r == folds[f]
                IN  /\ r.exclude = f - 1
                    /\ Len(r.gp.X) = NTrain - 1
                    /\ Len(r.gp.Y) = NTrain - 1
                    /\ \A j \in 1..NTrain :
                          j # f =>
                             \E k \in 1..(NTrain - 1) :
                                /\ r.gp.X[k] = Cube(params[j])
                                /\ \A b \in 1..Len(powers[j]) :
                                      RatEq(Restored(r.gp.Y[k], r.scalefactors, b),
                                            Rat(powers[j][b]))
                    /\ \A k \in 1..(NTrain - 1) : r.gp.X[k] # Cube(params[f])
                    /\ r.test_params = <<params[f]>>
                    /\ r.test_exact = powers[f]
                    /\ \A b \in 1..Len(powers[f]) :
                          /\ RatEq(r.predict.mean[1][b],
                                   RatMulInt(RatAdd(r.gp.hyper.f, Rat(1)), r.scalefactors[b]))
                          /\ RatEq(scales[f][b],
                                   RatDivInt(RatSub(Rat(powers[f][b]), r.predict.mean[1][b]),
                                             r.predict.std[1][b]))
    /\ (cv /\ pc \in {"full", "done"}) => ex = NTrain
C1_Witness == pc = "fold" /\ ex = NTrain /\ NTrain = 3 /\ Len(folds) = 3

\* C2: the constructor fits N+1 models with cv=True (N leave-one-out models of
\* N-1 points each, then one of all N points) and exactly one, of all N points,
\* with cv=False; when it returns, gp, scalefactors and paramzero come from the
\* full training set.
C2_FullFitLast ==
    pc = "done" =>
       /\ Len(fits) = IF cv THEN NTrain + 1 ELSE 1
       /\ \A f \in 1..(Len(fits) - 1) : Len(fits[f]) = NTrain - 1
       /\ fits[Len(fits)] = [j \in 1..NTrain |-> Cube(params[j])]
       /\ self.gp.X = [j \in 1..NTrain |-> Cube(params[j])]
       /\ Len(self.gp.Y) = NTrain
       /\ \A j \in 1..NTrain : \A b \in 1..Len(powers[j]) :
             RatEq(Restored(self.gp.Y[j], self.scalefactors, b), Rat(powers[j][b]))
       /\ \E j \in 1..NTrain :
             self.scalefactors = powers[j] /\ self.paramzero = Cube(params[j])
C2_Witness == pc = "done" /\ cv /\ NTrain = 3 /\ Len(fits) = 4

\* C3: when minimize reports non-convergence, its message is printed and res.x
\* is still what cv_rescale returns: the constructor stores it as sdscale,
\* prints it and builds the full emulator, as it does after a converged fit.
C3_NonConvergencePrinted ==
    (cv /\ pc \in {"full", "done"}) =>
       LET k == IF pc = "full" THEN Len(out) ELSE Len(out) - 1
       IN  /\ self.sdscale = res.x
           /\ ~res.success => (k >= 1 /\ out[k] = PrintLine(res.message, <<>>))
           /\ res.success => (k = 0 \/ out[k].args # <<>>)
           /\ pc = "done" =>
                 /\ out[Len(out)] = PrintLine("Rescaling errors by: ", <<res.x>>)
                 /\ Len(self.gp.X) = NTrain
C3_Witness == prog = "SkLearnGP" /\ cv /\ pc = "done" /\ ~res.success /\ res.x = 3

\* C9: _get_interp takes as scalefactors the spectrum at position M//2 of the M
\* spectra in ascending order of mean power, and as paramzero the unit-cube
\* parameters of the same row; that row's normalised spectrum is zero in every
\* bin, and predict at a training input gives back the training spectrum.
LatestFlux ==
    IF pc = "fold"
    THEN [k \in 1..(NTrain - 1) |-> powers[IF k < ex THEN k ELSE k + 1]]
    ELSE powers
LatestParams ==
    IF pc = "fold"
    THEN [k \in 1..(NTrain - 1) |-> params[IF k < ex THEN k ELSE k + 1]]
    ELSE params
C9_MedianNormalisation ==
    ((pc = "fold" /\ ex > 0) \/ pc = "done") =>
       LET flux == LatestFlux
           M == Len(flux)
           below(m) == Cardinality({j \in 1..M : SumSeq(flux[j]) < SumSeq(flux[m])})
           upto(m) == Cardinality({j \in 1..M : SumSeq(flux[j]) <= SumSeq(flux[m])})
       IN  /\ \E m \in 1..M :
                /\ below(m) <= M \div 2
                /\ upto(m) > M \div 2
                /\ self.scalefactors = flux[m]
                /\ self.paramzero = Cube(LatestParams[m])
                /\ \A b \in 1..Len(flux[m]) : self.gp.Y[m][b][1] = 0
           /\ \A j \in 1..M : \A b \in 1..Len(flux[j]) :
                 RatEq(Predict(self, <<LatestParams[j]>>).mean[1][b], Rat(flux[j][b]))
C9_Witness ==
    /\ pc = "done" /\ NTrain = 3
    /\ SumSeq(powers[1]) > SumSeq(powers[2]) /\ SumSeq(powers[2]) > SumSeq(powers[3])
    /\ self.scalefactors = powers[2]

\* C10: sdscale is 1 during every fold, so the fold errors are divided by the
\* un-rescaled standard deviation sqrt(var)*scalefactors; it takes the fitted
\* value once the folds are over and keeps it through every later predict and
\* get_predict_error; with cv=False it is 1 throughout.
C10_SdscaleTiming ==
    /\ pc = "fold" =>
          /\ self.sdscale = 1
          /\ \A f \in 1..Len(folds) : \A b \in 1..Len(folds[f].scalefactors) :
                /\ folds[f].predict.std[1][b] =
                      Sqrt(folds[f].gp.hyper.var) * folds[f].scalefactors[b]
                /\ RatEq(scales[f][b],
                         RatDivInt(RatSub(Rat(folds[f].test_exact[b]),
                                          folds[f].predict.mean[1][b]),
                                   Sqrt(folds[f].gp.hyper.var) * folds[f].scalefactors[b]))
    /\ pc \in {"full", "done"} => self.sdscale = IF cv THEN res.x ELSE 1
C10_Witness ==
    /\ prog = "SkLearnGP" /\ pc = "done" /\ cv /\ self.sdscale = 3
    /\ last.mean # <<>>

\* C4: fit_temp_dens_relation prints the message of leastsq whenever the flag
\* is none of the success codes 1, 2, 3, 4, and returns (10**logT0, gammam1 + 1)
\* from the fitted parameters whether or not the fit converged.
C4_MessageWheneverUnconverged ==
    /\ tdpc \in {"fitted", "done"} =>
          (tdres[5] \notin {1, 2, 3, 4} =>
              \E k \in 1..Len(tdout) : tdout[k] = tdres[4])
    /\ tdpc = "done" =>
          /\ tdret[1] = Pow10(tdres[1][1])
          /\ tdret[2] = tdres[1][2] + 1

\* C5: the script reads argv[1] and argv[2] and calls
\* plot_test_interpolate_kf_bin_loop exactly once, with
\* emudir = argv[1] + '/Lya_Boss/hires_knots',
\* testdir = argv[1] + '/Lya_Boss/hires_knots_test' and savedir = argv[2]; with
\* fewer than two arguments it ends in an exception and calls nothing.
C5_MainDispatch ==
    /\ mainpc = "done" =>
          /\ Len(argv) >= 3
          /\ Len(calls) = 1
          /\ calls[1].fn = "plot_test_interpolate_kf_bin_loop"
          /\ calls[1].emudir = argv[2] \o "/Lya_Boss/hires_knots"
          /\ calls[1].testdir = argv[2] \o "/Lya_Boss/hires_knots_test"
          /\ calls[1].savedir = argv[3]
    /\ mainpc \in {"start", "args", "raised"} => calls = <<>>
    /\ mainpc = "raised" <=> (prog = "main" /\ mainpc # "start" /\ Len(argv) < 3)
C5_Witness == mainpc = "done" /\ Len(argv) = 4 /\ argv[2] # argv[3] /\ Len(calls) = 1

\* C6: MultiBinGP builds emulators only when the number of columns of powers is
\* a multiple of nk; it then builds nz = columns/nk of them, emulator i trained
\* with the given params on exactly the columns [i*nk, (i+1)*nk) of powers;
\* every column belongs to exactly one emulator, and predict writes emulator
\* i's mean and std into the same columns of its result.
NCols == Len(mbpowers[1])
BinOf(c) == ((c - 1) \div nk) + 1
PosIn(c) == ((c - 1) % nk) + 1
C6_OneEmulatorPerBin ==
    /\ mbpc = "raised" =>
          NCols % Len(kf) # 0 /\ gps = <<>> /\ pc = "idle" /\ out = <<>>
    /\ mbpc \in {"build", "built", "predict", "returned", "predict_raised"} =>
          /\ NCols % nk = 0 /\ nz * nk = NCols /\ Len(gps) <= nz
          /\ \A c \in 1..NCols :
                Cardinality({i \in 1..nz : (i - 1) * nk < c /\ c <= i * nk}) = 1
          /\ \A i \in 1..Len(gps) :
                /\ gps[i].gp.X = [j \in 1..Len(mbparams) |-> Cube(mbparams[j])]
                /\ Len(gps[i].gp.Y) = Len(mbpowers)
                /\ \A j \in 1..Len(mbpowers) :
                      /\ Len(gps[i].gp.Y[j]) = nk
                      /\ \A b \in 1..nk :
                            RatEq(Restored(gps[i].gp.Y[j], gps[i].scalefactors, b),
                                  Rat(mbpowers[j][(i - 1) * nk + b]))
    /\ mbpc \in {"built", "predict", "returned", "predict_raised"} => Len(gps) = nz
    /\ mbpc \in {"predict", "returned"} =>
          \A c \in 1..NCols :
             IF c <= bin * nk
             THEN LET r == Predict(gps[BinOf(c)], passed[BinOf(c)])
                  IN  /\ means[1][c] = r.mean[1][PosIn(c)]
                      /\ std[1][c] = Rat(r.std[1][PosIn(c)])
             ELSE means[1][c] = Rat(0) /\ std[1][c] = Rat(0)
    /\ mbpc = "returned" => bin = nz
C6_Witness ==
    /\ mbpc = "returned" /\ nk = 2 /\ nz = 2 /\ tau.none
    /\ \A c \in 1..NCols : RatEq(means[1][c], Rat(mbpowers[1][c]))

\* C7: MultiBinGP.predict returns, without error, the predicted means of all K
\* parameter vectors it is given, for every K >= 1.
C7_PredictAnyK ==
    /\ mbpc # "predict_raised"
    /\ mbpc = "returned" => Len(means) = Len(qorig)

\* C8: the array handed to bin i's emulator is the caller's params with only
\* the component of row 0, column 0 multiplied by tau0_factors[i] (unchanged
\* when tau0_factors is None); factors do not accumulate from bin to bin and
\* the caller's array is never modified.
C8_Tau0Frame ==
    mbpc \in {"predict", "returned", "predict_raised"} =>
       /\ qparams = qorig
       /\ \A i \in 1..Len(passed) :
             /\ Len(passed[i]) = Len(qorig)
             /\ \A k \in 1..Len(qorig) :
                   /\ Len(passed[i][k]) = Len(qorig[k])
                   /\ \A c \in 1..Len(qorig[k]) :
                         passed[i][k][c] =
                            IF k = 1 /\ c = 1 /\ ~tau.none
                            THEN qorig[1][1] * tau.factors[i]
                            ELSE qorig[k][c]
C8_Witness ==
    /\ mbpc = "returned" /\ ~tau.none /\ Len(passed) = 2
    /\ passed[2][1][1] = 3 * qorig[1][1]
====
